---- MODULE Spec2Model ----
(***************************************************************************)
(* A model of the proof-text normalizer (utils/_format/format.py), of the  *)
(* directory layout validator (utils/directory_structure_utils.py) and of  *)
(* the outcome aggregator (scripts/make_proof_outcomes.py).                *)
(*                                                                         *)
(* A Python str is a sequence of characters; a character is a one-letter   *)
(* string, except LF, CR, TAB and BT (the backtick), which are named.       *)
(* Optional[x] is <<>> for None and <<x>> for a value.                     *)
(***************************************************************************)
EXTENDS Integers, Sequences, FiniteSets, TLC

VARIABLES pc, s, count, ret, prev, argv, disk

vars == <<pc, s, count, ret, prev, argv, disk>>

(***************************************************************************)
(* Bounds of the model.                                                    *)
(***************************************************************************)
\* the longest text of SpecFormat, in pieces
MaxFormatPieces == 5
\* the longest text of SpecThm, in pieces
MaxThmPieces == 6
\* the longest text of SpecExtract, in lines
MaxLines == 4
\* the most arguments after the script's name in SpecCli
MaxArgs == 2
\* the most entries at the top of a tree of SpecStructure
MaxTop == 2
\* the most entries of a model directory in SpecOutcomes
MaxEntries == 3

(***************************************************************************)
(* Characters.                                                             *)
(***************************************************************************)
LF == "LF"
CR == "CR"
TAB == "TAB"
SP == " "
BT == "BT"

\* str.strip() with no argument removes whitespace
WhiteChars == {SP, TAB, LF, CR}

None == <<>>
Some(x) == <<x>>

Min(S) == CHOOSE x \in S : \A y \in S : x <= y
Max(S) == CHOOSE x \in S : \A y \in S : x >= y

\* t[a:] of Python for 0 <= a (0-based a; the rest of the string)
From(t, a) == SubSeq(t, a + 1, Len(t))

\* t[:b] of Python for 0 <= b
Upto(t, b) == SubSeq(t, 1, IF b < Len(t) THEN b ELSE Len(t))

\* t[count:] of Python for any integer count (a negative count counts from the end)
SliceFrom(t, c) ==
  IF c >= 0 THEN From(t, c)
  ELSE IF -c >= Len(t) THEN t ELSE From(t, Len(t) + c)

\* t.lstrip(chars)
LStrip(t, chars) ==
  LET keep == {i \in 1..Len(t) : t[i] \notin chars}
  IN IF keep = {} THEN <<>> ELSE From(t, Min(keep) - 1)

\* t.rstrip(chars)
RStrip(t, chars) ==
  LET keep == {i \in 1..Len(t) : t[i] \notin chars}
  IN IF keep = {} THEN <<>> ELSE Upto(t, Max(keep))

\* t.strip()
Strip(t) == LStrip(RStrip(t, WhiteChars), WhiteChars)

\* t.startswith(p)
StartsWith(t, p) == Len(t) >= Len(p) /\ SubSeq(t, 1, Len(p)) = p

\* t.split(LF): always at least one element
RECURSIVE Split(_)
Split(t) ==
  LET nl == {i \in 1..Len(t) : t[i] = LF}
  IN IF nl = {} THEN <<t>>
     ELSE <<Upto(t, Min(nl) - 1)>> \o Split(From(t, Min(nl)))

\* t.splitlines(): breaks at LF, CR and CR LF; no empty last element
RECURSIVE SplitLines(_)
SplitLines(t) ==
  LET br == {i \in 1..Len(t) : t[i] \in {LF, CR}}
  IN IF t = <<>> THEN <<>>
     ELSE IF br = {} THEN <<t>>
     ELSE LET i == Min(br)
              n == IF t[i] = CR /\ i < Len(t) /\ t[i + 1] = LF THEN i + 1 ELSE i
          IN <<Upto(t, i - 1)>> \o SplitLines(From(t, n))

\* the join of lines with LF between them (str.join)
RECURSIVE Join(_)
Join(lines) ==
  IF lines = <<>> THEN <<>>
  ELSE IF Len(lines) = 1 THEN lines[1]
  ELSE lines[1] \o <<LF>> \o Join(Tail(lines))

(***************************************************************************)
(* format.py: the helpers.                                                 *)
(***************************************************************************)
Fence == <<BT, BT, BT>>

\* the index (1-based) of the last line that is not blank, 0 when there is none
LastNonBlank(lines) ==
  LET nb == {i \in 1..Len(lines) : Strip(lines[i]) # <<>>}
  IN IF nb = {} THEN 0 ELSE Max(nb)

strip_trailing_fence(text) ==
  LET lines == SplitLines(text)
      idx == LastNonBlank(lines)
  IN IF idx >= 1 /\ StartsWith(Strip(lines[idx]), Fence)
     THEN RStrip(Join(SubSeq(lines, 1, idx - 1)), WhiteChars)
     ELSE text

\* remove_leading_whitespace as a common-indent algorithm would have it: no line
\* loses a character that is not a space
remove_leading_whitespace_lstrip(t, c) ==
  LET lines == Split(t)
      n == IF c = None THEN Len(lines[2]) - Len(LStrip(lines[2], {SP})) ELSE c[1]
      cut(line) == LET lead == Len(line) - Len(LStrip(line, {SP}))
                   IN From(line, IF lead < n THEN lead ELSE n)
  IN IF Len(lines) <= 1 THEN t
     ELSE Join(<<lines[1]>> \o [i \in 1..(Len(lines) - 1) |-> cut(lines[i + 1])])

\* the count remove_leading_whitespace infers: the spaces leading the second line
InferredCount(lines) == Len(lines[2]) - Len(LStrip(lines[2], {SP}))

remove_leading_whitespace(t, c) ==
  LET lines == Split(t)
      n == IF c = None THEN InferredCount(lines) ELSE c[1]
  IN IF Len(lines) <= 1 THEN t
     ELSE Join(<<lines[1]>> \o [i \in 1..(Len(lines) - 1) |-> SliceFrom(lines[i + 1], n)])

EndWord == <<"e", "n", "d">>

\* remove_trailing_end with a prefix test in place of the equality
remove_trailing_end_startswith(t) ==
  LET lines == Split(t)
  IN IF StartsWith(Strip(lines[Len(lines)]), EndWord)
     THEN Join(SubSeq(lines, 1, Len(lines) - 1))
     ELSE Join(lines)

remove_trailing_end(t) ==
  LET lines == Split(t)
  IN IF Strip(lines[Len(lines)]) = EndWord
     THEN Join(SubSeq(lines, 1, Len(lines) - 1))
     ELSE Join(lines)

format_proof(t, c) ==
  remove_leading_whitespace(remove_trailing_end(strip_trailing_fence(t)), c)

(***************************************************************************)
(* format.py: the two extractors.  A position is the 1-based index of the  *)
(* next character; Len(t) + 1 is the end of the text.                      *)
(***************************************************************************)
Letters ==
  {"a", "b", "c", "d", "e", "f", "g", "h", "i", "j", "k", "l", "m", "n", "o", "p",
   "q", "r", "s", "t", "u", "v", "w", "x", "y", "z",
   "A", "B", "C", "D", "E", "F", "G", "H", "I", "J", "K", "L", "M", "N", "O", "P",
   "Q", "R", "S", "T", "U", "V", "W", "X", "Y", "Z"}
Digits == {"0", "1", "2", "3", "4", "5", "6", "7", "8", "9"}

\* the characters the regular expressions' \w matches
WordChars == Letters \cup Digits \cup {"_"}

\* the regular expressions' ^ under MULTILINE: the start, or after a LF
AtLineStart(t, p) == p = 1 \/ t[p - 1] = LF

\* the regular expressions' $ under MULTILINE: the end, or before a LF
AtLineEnd(t, p) == p = Len(t) + 1 \/ t[p] = LF

\* the literal lit stands at p
MatchLit(t, p, lit) ==
  p + Len(lit) - 1 <= Len(t) /\ SubSeq(t, p, p + Len(lit) - 1) = lit

\* the position after the longest run of spaces and tabs at p: [ \t]*
SkipBlanks(t, p) ==
  Min({q \in p..(Len(t) + 1) : q = Len(t) + 1 \/ t[q] \notin {SP, TAB}})

\* the four letters l e a n stand at p, in either case (IGNORECASE)
MatchLean(t, p) ==
  /\ p + 3 <= Len(t)
  /\ t[p] \in {"l", "L"}
  /\ t[p + 1] \in {"e", "E"}
  /\ t[p + 2] \in {"a", "A"}
  /\ t[p + 3] \in {"n", "N"}

\* [ \t]*\r?\n at p: the position after the LF, 0 when it does not match
TagLineEnd(t, p) ==
  LET q == SkipBlanks(t, p)
      r == IF q <= Len(t) /\ t[q] = CR THEN q + 1 ELSE q
  IN IF r <= Len(t) /\ t[r] = LF THEN r + 1 ELSE 0

\* the opening fence at p: ^[ \t]*BT{3}(?:lean4?|lean)[ \t]*\r?\n; the position
\* after it, 0 when it does not match
OpenFenceEnd(t, p) ==
  IF ~AtLineStart(t, p) THEN 0
  ELSE LET q == SkipBlanks(t, p)
           a == q + 3 + 4
       IN IF ~(MatchLit(t, q, Fence) /\ MatchLean(t, q + 3)) THEN 0
          ELSE IF a <= Len(t) /\ t[a] = "4" /\ TagLineEnd(t, a + 1) # 0
               THEN TagLineEnd(t, a + 1)
               ELSE TagLineEnd(t, a)

\* the closing fence at p: ^[ \t]*BT{3}[ \t]*$; the position after it, 0 when it
\* does not match
CloseFenceEnd(t, p) ==
  IF ~AtLineStart(t, p) THEN 0
  ELSE LET q == SkipBlanks(t, p)
           r == SkipBlanks(t, q + 3)
       IN IF MatchLit(t, q, Fence) /\ AtLineEnd(t, r) THEN r ELSE 0

\* (.*?) from b: the first position at or after b where the closing fence
\* matches, 0 when there is none
LazyBodyEnd(t, b) ==
  LET ends == {e \in b..(Len(t) + 1) : CloseFenceEnd(t, e) # 0}
  IN IF ends = {} THEN 0 ELSE Min(ends)

\* the whole pattern matches at p
BlockMatchAt(t, p) == OpenFenceEnd(t, p) # 0 /\ LazyBodyEnd(t, OpenFenceEnd(t, p)) # 0

\* pattern.findall(text) from p on: the bodies of the matches, left to right,
\* each search starting where the match before it ended
RECURSIVE FindAllFrom(_, _)
FindAllFrom(t, p) ==
  LET starts == {q \in p..(Len(t) + 1) : BlockMatchAt(t, q)}
  IN IF starts = {} THEN <<>>
     ELSE LET q == Min(starts)
              b == OpenFenceEnd(t, q)
              e == LazyBodyEnd(t, b)
          IN <<SubSeq(t, b, e - 1)>> \o FindAllFrom(t, CloseFenceEnd(t, e))

extract_last_lean4_block(text) ==
  LET matches == FindAllFrom(text, 1)
  IN IF matches = <<>> THEN None ELSE Some(Strip(matches[Len(matches)]))

Ok(v) == [tag |-> "Ok", value |-> v]
Err(e) == [tag |-> "Err", error |-> e]

TheoremWord == <<"t", "h", "e", "o", "r", "e", "m">>
ByWord == <<"b", "y">>

\* re.search(r"\bw\b", t) for a word w: the 0-based start of the first
\* occurrence of w with no word character before or after it, -1 for no match
SearchSubstring(t, w) ==
  LET hits == {p \in 1..Len(t) : MatchLit(t, p, w)}
  IN IF hits = {} THEN -1 ELSE Min(hits) - 1

SearchWord(t, w) ==
  LET hits == {p \in 1..Len(t) :
                 /\ MatchLit(t, p, w)
                 /\ (p = 1 \/ t[p - 1] \notin WordChars)
                 /\ (p + Len(w) = Len(t) + 1 \/ t[p + Len(w)] \notin WordChars)}
  IN IF hits = {} THEN -1 ELSE Min(hits) - 1

extract_proof_from_full(t) ==
  LET m_thm == SearchWord(t, TheoremWord)
      thm_end == m_thm + Len(TheoremWord)
      m_by == SearchWord(From(t, thm_end), ByWord)
      start == thm_end + m_by + 2
      proof == LStrip(From(t, start), {LF, SP})
  IN IF m_thm = -1 THEN Err("no theorem keyword found")
     ELSE IF m_by = -1 THEN Err("no by found after theorem")
     ELSE IF Strip(proof) = <<>> THEN Err("empty proof after by")
     ELSE Ok(proof)

\* no helper raises on a str, so the except branch returns nothing here
safe_format_proof(t, c) == Ok(format_proof(t, c))

IsOk(r) == r.tag = "Ok"

\* the working text with the Theorem-Body Extractor applied to the raw input as
\* well when no block is found
WorkingText_extract_raw(t) ==
  LET block == extract_last_lean4_block(t)
      whole == IF block = None THEN t ELSE block[1]
      extracted_proof == extract_proof_from_full(whole)
  IN IF IsOk(extracted_proof) THEN extracted_proof.value ELSE whole

\* the working text: the raw input, the body extracted from the last block, or
\* the block
WorkingText(t) ==
  LET block == extract_last_lean4_block(t)
      extracted_proof == extract_proof_from_full(block[1])
  IN IF block = None THEN t
     ELSE IF IsOk(extracted_proof) THEN extracted_proof.value
     ELSE block[1]

\* the attempts with the explicit counts in the other order
BulkAttempts_swapped(pf) ==
  <<Ok(pf), safe_format_proof(pf, None),
    safe_format_proof(pf, Some(4)), safe_format_proof(pf, Some(2))>>

BulkAttempts(pf) ==
  <<Ok(pf), safe_format_proof(pf, None),
    safe_format_proof(pf, Some(2)), safe_format_proof(pf, Some(4))>>

\* the loop over the attempts: the values of those that are Ok, in order
RECURSIVE KeepOk(_)
KeepOk(attempts) ==
  IF attempts = <<>> THEN <<>>
  ELSE IF IsOk(Head(attempts)) THEN <<Head(attempts).value>> \o KeepOk(Tail(attempts))
  ELSE KeepOk(Tail(attempts))

apply_bulk_strategies(t) == KeepOk(BulkAttempts(WorkingText(t)))

get_proof_variants(t) == <<t>> \o apply_bulk_strategies(t)

(***************************************************************************)
(* The inputs: every concatenation of at most n of the pieces P.           *)
(***************************************************************************)
RECURSIVE Concats(_, _)
Concats(P, n) ==
  IF n = 0 THEN {<<>>}
  ELSE LET shorter == Concats(P, n - 1)
       IN shorter \cup {p \o t : p \in P, t \in shorter}

FormatPieces == {Fence, <<SP>>, <<LF>>, <<CR>>, <<"x">>, EndWord}
\* the texts of at most n pieces
FormatTexts(n) == Concats(FormatPieces, n)

\* the counts a caller passes: None, and the explicit ones
Counts == {None} \cup {Some(n) : n \in {0, 1, 2, 4}}

(***************************************************************************)
(* SpecFormat: one call of a helper of format.py on a text.                *)
(***************************************************************************)
InitFormat ==
  /\ pc = "start"
  /\ s \in FormatTexts(MaxFormatPieces)
  /\ count = None
  /\ ret = <<>>
  /\ prev = <<>>
  /\ argv = <<>>
  /\ disk = <<>>

CallStripTrailingFence ==
  /\ pc = "start"
  /\ pc' = "strip_trailing_fence"
  /\ ret' = strip_trailing_fence(s)
  /\ UNCHANGED <<s, count, prev, argv, disk>>

\* the stripper applied to its own result
CallStripTrailingFenceAgain ==
  /\ pc = "strip_trailing_fence"
  /\ pc' = "strip_trailing_fence_twice"
  /\ prev' = ret
  /\ ret' = strip_trailing_fence(ret)
  /\ UNCHANGED <<s, count, argv, disk>>

CallRemoveLeadingWhitespace ==
  /\ pc = "start"
  /\ \E c \in Counts :
       /\ count' = c
       /\ ret' = remove_leading_whitespace(s, c)
  /\ pc' = "remove_leading_whitespace"
  /\ UNCHANGED <<s, prev, argv, disk>>

CallRemoveTrailingEnd ==
  /\ pc = "start"
  /\ pc' = "remove_trailing_end"
  /\ ret' = remove_trailing_end(s)
  /\ UNCHANGED <<s, count, prev, argv, disk>>

NextFormat ==
  \/ CallStripTrailingFence
  \/ CallStripTrailingFenceAgain
  \/ CallRemoveLeadingWhitespace
  \/ CallRemoveTrailingEnd

SpecFormat == InitFormat /\ [][NextFormat]_vars

(***************************************************************************)
(* SpecThm: extract_proof_from_full on a text of keywords, separators and  *)
(* letters, or on one of the examples.                                     *)
(***************************************************************************)
ThmPieces == {TheoremWord, ByWord, <<SP>>, <<LF>>, <<TAB>>, <<"x">>}

\* "theorem foo : True by\n  trivial"
ExampleTheorem ==
  TheoremWord \o <<SP, "f", "o", "o", SP, ":", SP, "T", "r", "u", "e", SP>> \o ByWord
    \o <<LF, SP, SP, "t", "r", "i", "v", "i", "a", "l">>

\* "no keywords here"
ExampleNoKeywords ==
  <<"n", "o", SP, "k", "e", "y", "w", "o", "r", "d", "s", SP, "h", "e", "r", "e">>

\* the texts of at most n pieces, and the examples
ThmTexts(n) == Concats(ThmPieces, n) \cup {ExampleTheorem, ExampleNoKeywords}

InitThm ==
  /\ pc = "start"
  /\ s \in ThmTexts(MaxThmPieces)
  /\ count = None
  /\ ret = <<>>
  /\ prev = <<>>
  /\ argv = <<>>
  /\ disk = <<>>

CallExtractProofFromFull ==
  /\ pc = "start"
  /\ pc' = "extract_proof_from_full"
  /\ ret' = extract_proof_from_full(s)
  /\ UNCHANGED <<s, count, prev, argv, disk>>

NextThm == CallExtractProofFromFull

SpecThm == InitThm /\ [][NextThm]_vars

(***************************************************************************)
(* SpecExtract: the block extractor and the variant assembler on a raw     *)
(* text of at most MaxLines lines, or on one of the examples.              *)
(***************************************************************************)
LeanWord == <<"l", "e", "a", "n">>

LineKinds ==
  { Fence \o LeanWord \o <<"4">>,
    Fence,
    <<TAB>> \o Fence \o <<"L", "e", "a", "n", SP>>,
    Fence \o <<"p", "y">>,
    TheoremWord \o <<SP, "t", SP>> \o ByWord,
    <<SP, "x">>,
    EndWord,
    <<>> }

RECURSIVE LinesUpTo(_)
LinesUpTo(n) ==
  IF n = 0 THEN {<<>>}
  ELSE LinesUpTo(n - 1) \cup {Append(ls, l) : ls \in LinesUpTo(n - 1), l \in LineKinds}

\* "Some reasoning.", a lean4 block holding "theorem foo : True by", "  trivial"
\* and "end"
ExampleEndToEnd ==
  Join(<< <<"S", "o", "m", "e", SP, "r", "e", "a", "s", "o", "n", "i", "n", "g", ".">>,
          Fence \o LeanWord \o <<"4">>,
          TheoremWord \o <<SP, "f", "o", "o", SP, ":", SP, "T", "r", "u", "e", SP>> \o ByWord,
          <<SP, SP, "t", "r", "i", "v", "i", "a", "l">>,
          EndWord,
          Fence >>)

\* two lean4 blocks with the bodies "A" and "B"
ExampleTwoBlocks ==
  Join(<< Fence \o LeanWord \o <<"4">>, <<"A">>, Fence,
          Fence \o LeanWord \o <<"4">>, <<"B">>, Fence >>)

\* one lean4 block in a text with CR LF line ends
ExampleCrLf ==
  Fence \o LeanWord \o <<"4", CR, LF, "A", CR, LF>> \o Fence \o <<CR, LF>>

\* the texts of at most n lines, and the examples
RawTexts(n) ==
  {Join(ls) : ls \in LinesUpTo(n)}
    \cup {ExampleEndToEnd, ExampleTwoBlocks, ExampleCrLf, ExampleTheorem}

InitExtract ==
  /\ pc = "start"
  /\ s \in RawTexts(MaxLines)
  /\ count = None
  /\ ret = <<>>
  /\ prev = <<>>
  /\ argv = <<>>
  /\ disk = <<>>

CallExtractLastLean4Block ==
  /\ pc = "start"
  /\ pc' = "extract_last_lean4_block"
  /\ ret' = extract_last_lean4_block(s)
  /\ UNCHANGED <<s, count, prev, argv, disk>>

CallGetProofVariants ==
  /\ pc = "start"
  /\ pc' = "get_proof_variants"
  /\ ret' = get_proof_variants(s)
  /\ UNCHANGED <<s, count, prev, argv, disk>>

NextExtract ==
  \/ CallExtractLastLean4Block
  \/ CallGetProofVariants

SpecExtract == InitExtract /\ [][NextExtract]_vars

(***************************************************************************)
(* format.py run as a script.  argv is sys.argv; disk maps a path to what   *)
(* open() finds there; ret is the exit status and the two streams.         *)
(***************************************************************************)
Separator == <<LF, "-", "-", "-", LF>>

\* sep.join(parts)
RECURSIVE JoinWith(_, _)
JoinWith(parts, sep) ==
  IF parts = <<>> THEN <<>>
  ELSE IF Len(parts) = 1 THEN parts[1]
  ELSE parts[1] \o sep \o JoinWith(Tail(parts), sep)

\* open(filename) raises OSError unless a file that may be read is there
OpenRaisesOSError(d, filename) == d[filename].kind # "file"

main_format(av, d) ==
  IF Len(av) < 2
  THEN [exit |-> 1, stdout |-> <<>>, stderr |-> "usage"]
  ELSE LET filename == av[2]
       IN IF OpenRaisesOSError(d, filename)
          THEN [exit |-> 2, stdout |-> <<>>, stderr |-> "unable to read"]
          ELSE [exit |-> 0,
                stdout |-> JoinWith(get_proof_variants(d[filename].content), Separator)
                             \o <<LF>>,
                stderr |-> ""]

Paths == {"a.txt", "b.txt"}

FileStates ==
  {[kind |-> k, content |-> <<>>] : k \in {"missing", "directory", "denied"}}
    \cup {[kind |-> "file", content |-> c] : c \in {<<>>, ExampleTheorem}}

RECURSIVE ArgLists(_)
ArgLists(n) ==
  IF n = 0 THEN {<<>>}
  ELSE ArgLists(n - 1) \cup {Append(a, x) : a \in ArgLists(n - 1), x \in Paths}

InitCli ==
  /\ pc = "start"
  /\ s = <<>>
  /\ count = None
  /\ ret = <<>>
  /\ prev = <<>>
  /\ argv \in {<<"format.py">> \o a : a \in ArgLists(MaxArgs)}
  /\ disk \in [Paths -> FileStates]

RunFormatScript ==
  /\ pc = "start"
  /\ pc' = "exited"
  /\ ret' = main_format(argv, disk)
  /\ UNCHANGED <<s, count, prev, argv, disk>>

NextCli == RunFormatScript

SpecCli == InitCli /\ [][NextCli]_vars

(***************************************************************************)
(* Directory trees.  A node is a file or a directory; a directory maps the *)
(* names of its entries to nodes; a name is a sequence of characters.      *)
(***************************************************************************)
File == [kind |-> "file"]
Dir(entries) == [kind |-> "dir", entries |-> entries]
Missing == [kind |-> "missing"]

\* os.path.isdir
IsDir(node) == node.kind = "dir"
\* os.path.isfile
IsFile(node) == node.kind = "file"
\* os.listdir of a directory
ListDir(node) == DOMAIN node.entries
\* the names of the entries of a directory that are directories
SubDirNames(node) == {n \in ListDir(node) : IsDir(node.entries[n])}
\* the names of the entries of a directory that are files
FileNames(node) == {n \in ListDir(node) : IsFile(node.entries[n])}

\* the directories with at most n entries, their names in names and their
\* nodes in nodes
DirsOf(names, nodes, n) ==
  UNION {{Dir(f) : f \in [D -> nodes]} : D \in {D \in SUBSET names : Cardinality(D) <= n}}

(***************************************************************************)
(* directory_structure_utils.py: check_structure.                          *)
(***************************************************************************)
\* the names the module binds: its imports and its functions
ModuleNames ==
  {"os", "shutil", "Tuple", "check_structure",
   "find_intersection_of_number_file_subfolders", "find_non_intersection_set_folders"}

\* the value of a character that is a digit
DigitValue(c) ==
  CASE c = "0" -> 0 [] c = "1" -> 1 [] c = "2" -> 2 [] c = "3" -> 3 [] c = "4" -> 4
    [] c = "5" -> 5 [] c = "6" -> 6 [] c = "7" -> 7 [] c = "8" -> 8 [] c = "9" -> 9

\* int(name) for a name of digits
RECURSIVE DecimalValue(_)
DecimalValue(name) ==
  IF name = <<>> THEN 0
  ELSE 10 * DecimalValue(SubSeq(name, 1, Len(name) - 1)) + DigitValue(name[Len(name)])

\* nat_canonical.fullmatch(name): 0|[1-9][0-9]*
IsCanonicalNat(name) ==
  \/ name = <<"0">>
  \/ /\ Len(name) >= 1
     /\ name[1] \in Digits \ {"0"}
     /\ \A i \in 2..Len(name) : name[i] \in Digits

\* how a call ends: it returns, or it raises the exception named
Returned == "returned"
AssertionError == "AssertionError"
NameError == "NameError"

check_numeric_children_consecutive(node) ==
  IF ~IsDir(node) THEN AssertionError
  ELSE IF ListDir(node) = {} THEN AssertionError
  ELSE IF "re" \notin ModuleNames THEN NameError
  ELSE IF \E name \in ListDir(node) :
            ~IsDir(node.entries[name]) \/ ~IsCanonicalNat(name)
       THEN AssertionError
  ELSE LET nums == {DecimalValue(name) : name \in ListDir(node)}
       IN IF Min(nums) # 0 THEN AssertionError
          ELSE IF nums # Min(nums)..Max(nums) THEN AssertionError
          ELSE Returned

\* the loops of check_structure after the numeric check
CheckSubfolders(node) ==
  LET zero_folder == node.entries[<<"0">>]
      folder_names == SubDirNames(zero_folder)
      leaves == {<<f, d>> \in ListDir(node) \X UNION {ListDir(node.entries[f]) : f \in ListDir(node)} :
                   d \in ListDir(node.entries[f])}
  IN IF ~(<<"0">> \in ListDir(node) /\ IsDir(zero_folder)) THEN AssertionError
     ELSE IF \E f \in SubDirNames(node) : SubDirNames(node.entries[f]) # folder_names
          THEN AssertionError
     ELSE IF \E l \in leaves : ~IsDir(node.entries[l[1]].entries[l[2]])
          THEN AssertionError
     ELSE IF \E l1 \in leaves, l2 \in leaves :
               FileNames(node.entries[l1[1]].entries[l1[2]])
                 # FileNames(node.entries[l2[1]].entries[l2[2]])
          THEN AssertionError
     ELSE Returned

check_structure(node) ==
  IF ~IsDir(node) THEN AssertionError
  ELSE IF ListDir(node) = {} THEN AssertionError
  ELSE IF \E name \in ListDir(node) : ~IsDir(node.entries[name]) THEN AssertionError
  ELSE IF check_numeric_children_consecutive(node) # Returned
       THEN check_numeric_children_consecutive(node)
  ELSE CheckSubfolders(node)

TopNames == {<<"0">>, <<"1">>, <<"2">>, <<"0", "1">>, <<"x">>}
SubfolderNames == {<<"A">>, <<"B">>}
LeafFileNames == {<<"f">>}

\* what a numeric directory may hold: files, and subfolders of files
SubfolderNodes == {File} \cup DirsOf(LeafFileNames, {File}, 1)
TopNodes == {File} \cup DirsOf(SubfolderNames, SubfolderNodes, 2)

\* no tree, a file, and the trees of at most n entries at the top
StructureTrees(n) == {Missing, File} \cup DirsOf(TopNames, TopNodes, n)

InitStructure ==
  /\ pc = "start"
  /\ s = <<>>
  /\ count = None
  /\ ret = <<>>
  /\ prev = <<>>
  /\ argv = <<>>
  /\ disk \in StructureTrees(MaxTop)

CallCheckStructure ==
  /\ pc = "start"
  /\ pc' = "check_structure"
  /\ ret' = check_structure(disk)
  /\ UNCHANGED <<s, count, prev, argv, disk>>

NextStructure == CallCheckStructure

SpecStructure == InitStructure /\ [][NextStructure]_vars

(***************************************************************************)
(* make_proof_outcomes.py: build_outcomes.  The names are over digits,     *)
(* letters, the dot and the signs; int() reads a sign and digits there.    *)
(***************************************************************************)
MAX_ATTEMPTS == 24

UpperCase ==
  <<"A", "B", "C", "D", "E", "F", "G", "H", "I", "J", "K", "L", "M", "N", "O", "P",
    "Q", "R", "S", "T", "U", "V", "W", "X", "Y", "Z">>
LowerCase ==
  <<"a", "b", "c", "d", "e", "f", "g", "h", "i", "j", "k", "l", "m", "n", "o", "p",
    "q", "r", "s", "t", "u", "v", "w", "x", "y", "z">>

\* name.lower()
Lower(name) ==
  [i \in 1..Len(name) |->
     IF \E k \in 1..26 : UpperCase[k] = name[i]
     THEN LowerCase[CHOOSE k \in 1..26 : UpperCase[k] = name[i]]
     ELSE name[i]]

\* name.endswith(suffix)
EndsWith(name, suffix) ==
  Len(name) >= Len(suffix) /\ From(name, Len(name) - Len(suffix)) = suffix

\* name.isdigit()
IsDigit(name) == name # <<>> /\ \A i \in 1..Len(name) : name[i] \in Digits

\* os.path.splitext(name)[0]: the name up to its last dot, when a character
\* that is not a dot stands before that dot
SplitExtStem(name) ==
  LET dots == {i \in 1..Len(name) : name[i] = "."}
  IN IF dots = {} THEN name
     ELSE IF \A i \in 1..(Max(dots) - 1) : name[i] = "." THEN name
     ELSE Upto(name, Max(dots) - 1)

\* int(stem): None for the ValueError
ParseInt(stem) ==
  LET signed == stem # <<>> /\ stem[1] \in {"+", "-"}
      digits == IF signed THEN Tail(stem) ELSE stem
  IN IF ~IsDigit(digits) THEN None
     ELSE Some(IF signed /\ stem[1] = "-" THEN -DecimalValue(digits)
               ELSE DecimalValue(digits))

TxtSuffix == <<".", "t", "x", "t">>

\* the body of the loop over the entries, with attempts[num] for attempts[num - 1]
MarkAttempt_off_by_one(attempts, entry) ==
  LET num == ParseInt(SplitExtStem(entry))
  IN IF ~EndsWith(Lower(entry), TxtSuffix) THEN attempts
     ELSE IF num = None THEN attempts
     ELSE IF 1 <= num[1] /\ num[1] < MAX_ATTEMPTS
          THEN [attempts EXCEPT ![num[1] + 1] = 1]
     ELSE attempts

\* the body of the loop over the entries of a model directory
MarkAttempt(attempts, entry) ==
  LET num == ParseInt(SplitExtStem(entry))
  IN IF ~EndsWith(Lower(entry), TxtSuffix) THEN attempts
     ELSE IF num = None THEN attempts
     ELSE IF 1 <= num[1] /\ num[1] <= MAX_ATTEMPTS
          THEN [attempts EXCEPT ![num[1]] = 1]
     ELSE attempts

\* the loop over the entries left to visit
RECURSIVE MarkAttempts(_, _)
MarkAttempts(attempts, entries) ==
  IF entries = {} THEN attempts
  ELSE LET entry == CHOOSE e \in entries : TRUE
       IN MarkAttempts(MarkAttempt(attempts, entry), entries \ {entry})

\* the dict build_outcomes returns, as a function; the order of its keys is
\* not modelled
build_outcomes(root) ==
  LET prob_dirs == {d \in ListDir(root) : IsDir(root.entries[d]) /\ IsDigit(d)}
  IN [prob_name \in prob_dirs |->
        LET prob == root.entries[prob_name]
        IN [model_name \in SubDirNames(prob) |->
              MarkAttempts([i \in 1..MAX_ATTEMPTS |-> 0],
                           ListDir(prob.entries[model_name]))]]

EntryNames ==
  { <<"1">> \o TxtSuffix,
    <<"2", "4">> \o TxtSuffix,
    <<"2", "5">> \o TxtSuffix,
    <<"0">> \o TxtSuffix,
    <<"0", "1">> \o TxtSuffix,
    <<"x">> \o TxtSuffix,
    <<"-", "1">> \o TxtSuffix,
    <<"+", "3">> \o TxtSuffix,
    <<"2", ".", "T", "X", "T">>,
    <<"3", ".", "m", "d">> }

\* a problem directory: the model M, a file or a directory of at most
\* k entries, and beside it no N, a file N or the model N of 1.txt
ModelNodes(k) == {File} \cup DirsOf(EntryNames, {File}, k)
SecondModels == {File, Dir(<<"1">> \o TxtSuffix :> File)}
ProblemDirs(k) ==
  {Dir(<<"M">> :> m) : m \in ModelNodes(k)}
    \cup {Dir(<<"M">> :> m @@ <<"N">> :> n) : m \in ModelNodes(k), n \in SecondModels}

\* what else the root may hold: a file, a directory whose name is no number,
\* a second problem directory
OtherTopEntries ==
  { <<<<"n", "o", "t", "e", "s">>, File>>,
    <<<<"x">>, Dir((<<"M">> :> Dir(<<"1">> \o TxtSuffix :> File)))>>,
    <<<<"1", "0">>, Dir((<<"M">> :> Dir(<<"2">> \o TxtSuffix :> File)))>> }

OutcomeTrees(k) ==
  {Dir([n \in {<<"0">>} \cup {o[1] : o \in others} |->
          IF n = <<"0">> THEN p ELSE (CHOOSE o \in others : o[1] = n)[2]]) :
     p \in ProblemDirs(k), others \in SUBSET OtherTopEntries}

InitOutcomes ==
  /\ pc = "start"
  /\ s = <<>>
  /\ count = None
  /\ ret = <<>>
  /\ prev = <<>>
  /\ argv = <<>>
  /\ disk \in OutcomeTrees(MaxEntries)

CallBuildOutcomes ==
  /\ pc = "start"
  /\ pc' = "build_outcomes"
  /\ ret' = build_outcomes(disk)
  /\ UNCHANGED <<s, count, prev, argv, disk>>

NextOutcomes == CallBuildOutcomes

SpecOutcomes == InitOutcomes /\ [][NextOutcomes]_vars

(***************************************************************************)
(* The claims about the helpers.                                           *)
(***************************************************************************)
\* the text after the last LF of t: the last line of t.split(LF)
LastLine(t) == From(t, Max({0} \cup {i \in 1..Len(t) : t[i] = LF}))

\* the text ends, trailing blank lines ignored, with a line whose trimmed
\* content starts with three backticks
EndsWithFenceLine(t) ==
  LET lines == SplitLines(t)
  IN \E i \in 1..Len(lines) :
       /\ StartsWith(Strip(lines[i]), Fence)
       /\ \A j \in (i + 1)..Len(lines) : Strip(lines[j]) = <<>>

\* C5: the Fence Stripper is idempotent (applied to its own result it returns
\* that result), and it returns a text that does not end with a fence line
\* unchanged.
C5_FenceStripperIdempotent ==
  /\ (pc = "strip_trailing_fence_twice" => ret = prev)
  /\ (pc = "strip_trailing_fence" /\ ~EndsWithFenceLine(s) => ret = s)

\* C10: remove_trailing_end removes nothing but the last line, and that only
\* when its trimmed content is the word end: the result is s, or it is s without
\* its last line (and the line break before it) and that line trims to end;
\* when the last line does not trim to end the result is s.
C10_TrailingEndFrame ==
  pc = "remove_trailing_end" =>
    LET last == LastLine(s)
    IN /\ Strip(last) # EndWord => ret = s
       /\ \/ ret = s
          \/ /\ Strip(last) = EndWord
             /\ \/ s = ret \o <<LF>> \o last
                \/ s = last /\ ret = <<>>

\* C10's case: a last line that trims to end, after other lines, was removed
C10_Witness ==
  /\ pc = "remove_trailing_end"
  /\ Strip(LastLine(s)) = EndWord
  /\ LastLine(s) # EndWord
  /\ Len(Split(s)) >= 2
  /\ ret # s

\* the count a call of remove_leading_whitespace uses, by C9: the explicit
\* one, or the number of spaces leading the second line
C9_Count ==
  IF count # None THEN count[1]
  ELSE LET l2 == Split(s)[2]
       IN Min({i \in 0..Len(l2) : i = Len(l2) \/ l2[i + 1] # SP})

\* C9 as stated: one line or fewer is returned unchanged; otherwise the first
\* line is unchanged and every later line has exactly count characters removed
\* from its start; an explicit count of 0 changes nothing.
C9_ExactlyCountRemoved ==
  pc = "remove_leading_whitespace" =>
    LET in == Split(s)
        out == Split(ret)
    IN /\ Len(in) <= 1 => ret = s
       /\ count = Some(0) => ret = s
       /\ Len(in) >= 2 =>
            /\ Len(out) = Len(in)
            /\ out[1] = in[1]
            /\ \A i \in 2..Len(in) :
                 /\ Len(in[i]) = C9_Count + Len(out[i])
                 /\ \A k \in 1..Len(out[i]) : out[i][k] = in[i][k + C9_Count]

\* C9 amended: every later line loses its first count characters, or all of
\* its characters when it is shorter than count.
C9_CountOrAllRemoved ==
  pc = "remove_leading_whitespace" =>
    LET in == Split(s)
        out == Split(ret)
    IN /\ Len(in) <= 1 => ret = s
       /\ count = Some(0) => ret = s
       /\ Len(in) >= 2 =>
            /\ Len(out) = Len(in)
            /\ out[1] = in[1]
            /\ \A i \in 2..Len(in) :
                 /\ Len(out[i]) = IF Len(in[i]) < C9_Count THEN 0
                                  ELSE Len(in[i]) - C9_Count
                 /\ \A k \in 1..Len(out[i]) : out[i][k] = in[i][k + C9_Count]

\* C9's cases: a later line shorter than the count is emptied, and a later line
\* with fewer leading spaces than the inferred count loses other characters
C9_Witness ==
  /\ pc = "remove_leading_whitespace"
  /\ Len(Split(s)) >= 2
  /\ \/ /\ count = Some(2)
        /\ \E i \in 2..Len(Split(s)) : Split(s)[i] = <<"x">> /\ Split(ret)[i] = <<>>
     \/ /\ count = None
        /\ C9_Count = 2
        /\ \E i \in 3..Len(Split(s)) : Split(s)[i] = <<>> /\ Split(ret)[i] = <<>>

(***************************************************************************)
(* The claims about the extractors and the assembler.                      *)
(***************************************************************************)
TrivialWord == <<"t", "r", "i", "v", "i", "a", "l">>

\* the attempts that succeeded, in order
Values(attempts) ==
  LET kept == {i \in 1..Len(attempts) : attempts[i].tag = "Ok"}
      nth(k) == CHOOSE i \in kept : Cardinality({j \in kept : j <= i}) = k
  IN [k \in 1..Cardinality(kept) |-> attempts[nth(k)].value]

\* C1: the variant list is the raw input followed by the attempts that
\* succeeded, in the order (a) the working text, (b) the Composed Formatter with
\* the inferred count, (c) with count 2, (d) with count 4, duplicates kept; so
\* its first element is the raw input and it has between 1 and 5 elements.
C1_VariantList ==
  pc = "get_proof_variants" =>
    /\ Len(ret) \in 1..5
    /\ ret[1] = s
    /\ Len(ret) >= 2
    /\ LET w == ret[2]
       IN Tail(ret) = Values(<<Ok(w), safe_format_proof(w, None),
                              safe_format_proof(w, Some(2)), safe_format_proof(w, Some(4))>>)

\* C1's case: the end-to-end example; the count 2 and the count 4 give the same
\* variant and both are kept
C1_Witness ==
  /\ pc = "get_proof_variants"
  /\ s = ExampleEndToEnd
  /\ ret = <<s, TrivialWord \o <<LF>> \o EndWord, TrivialWord, TrivialWord, TrivialWord>>

\* C2: the working text (the second variant) is the raw input when no block is
\* found, the extracted body when a block is found and the Theorem-Body
\* Extractor succeeds on it, and the block when it fails on it.
C2_WorkingText ==
  pc = "get_proof_variants" =>
    LET block == extract_last_lean4_block(s)
    IN /\ block = None => ret[2] = s
       /\ block # None /\ IsOk(extract_proof_from_full(block[1]))
            => ret[2] = extract_proof_from_full(block[1]).value
       /\ block # None /\ ~IsOk(extract_proof_from_full(block[1]))
            => ret[2] = block[1]

\* C2's case: no block, and a raw input the Theorem-Body Extractor would succeed
\* on: it is not applied
C2_Witness ==
  /\ pc = "get_proof_variants"
  /\ extract_last_lean4_block(s) = None
  /\ IsOk(extract_proof_from_full(s))
  /\ ret[2] = s
  /\ ret[2] # extract_proof_from_full(s).value

\* a line is a closing fence: its trimmed content is three backticks
IsClosingLine(l) == Strip(l) = Fence

\* a line is an opening fence tagged lean or lean4, in either case: spaces and
\* tabs, three backticks, the tag, and whitespace
IsLeanOpeningLine(l) ==
  LET a == LStrip(l, {SP, TAB})
      b == RStrip(a, WhiteChars)
  IN /\ StartsWith(b, Fence)
     /\ MatchLean(b, 4)
     /\ (Len(b) = 7 \/ (Len(b) = 8 /\ b[8] = "4"))

\* the fenced Lean blocks of a text: an opening line tagged lean or lean4 and
\* the first closing line after it
LeanBlocks(t) ==
  LET ls == Split(t)
  IN {b \in (1..Len(ls)) \X (1..Len(ls)) :
        /\ b[1] < b[2]
        /\ IsLeanOpeningLine(ls[b[1]])
        /\ IsClosingLine(ls[b[2]])
        /\ \A k \in (b[1] + 1)..(b[2] - 1) : ~IsClosingLine(ls[k])}

\* C3: extract_last_lean4_block returns None when the text holds no fenced Lean
\* block, and otherwise the trimmed body of the last one (the one whose opening
\* line comes last), never the body of an earlier block and never a body that
\* runs across the opening line of a later block.
C3_LastBlock ==
  pc = "extract_last_lean4_block" =>
    LET ls == Split(s)
        blocks == LeanBlocks(s)
    IN IF blocks = {} THEN ret = None
       ELSE LET b == CHOOSE x \in blocks : \A y \in blocks : y[1] <= x[1]
            IN ret = Some(Strip(Join(SubSeq(ls, b[1] + 1, b[2] - 1))))

\* w stands at the 1-based index i of t as a word of its own
StandaloneAt(t, w, i) ==
  /\ i >= 1
  /\ i + Len(w) - 1 <= Len(t)
  /\ \A k \in 1..Len(w) : t[i + k - 1] = w[k]
  /\ (i = 1 \/ t[i - 1] \notin WordChars)
  /\ (i + Len(w) - 1 = Len(t) \/ t[i + Len(w)] \notin WordChars)

\* C4: extract_proof_from_full fails exactly when there is no standalone
\* theorem, or no standalone by after the first one, or only whitespace after
\* that by; otherwise it succeeds with the text after the by, its leading
\* newlines and spaces removed and nothing else.
C4_TheoremBody ==
  pc = "extract_proof_from_full" =>
    LET thms == {i \in 1..Len(s) : StandaloneAt(s, TheoremWord, i)}
        thm == Min(thms)
        bys == {j \in 1..Len(s) : j >= thm + 7 /\ StandaloneAt(s, ByWord, j)}
        after == From(s, Min(bys) + 1)
        blank == \A k \in 1..Len(after) : after[k] \in WhiteChars
        fails == thms = {} \/ bys = {} \/ blank
    IN /\ ret.tag \in {"Ok", "Err"}
       /\ ret.tag = "Err" <=> fails
       /\ ~fails =>
            \E n \in 0..Len(after) :
              /\ \A k \in 1..n : after[k] \in {LF, SP}
              /\ ret.value = From(after, n)
              /\ ret.value[1] \notin {LF, SP}

\* C4's case: the example, a by that is a word of its own after the theorem
C4_Witness ==
  /\ pc = "extract_proof_from_full"
  /\ s = ExampleTheorem
  /\ ret = Ok(TrivialWord)

(***************************************************************************)
(* The claims about the script and the directory utilities.                *)
(***************************************************************************)
\* C6: the script exits with status 1 exactly when it is not given exactly one
\* file path argument, with status 2 when the file named cannot be opened or
\* read, and with status 0 otherwise, the variants printed with a line of
\* three dashes between them; no other exit status is reachable.
C6_ExitStatus ==
  pc = "exited" =>
    LET nargs == Len(argv) - 1
    IN /\ ret.exit \in {0, 1, 2}
       /\ nargs # 1 => ret.exit = 1 /\ ret.stderr = "usage"
       /\ nargs = 1 /\ disk[argv[2]].kind # "file" => ret.exit = 2
       /\ nargs = 1 /\ disk[argv[2]].kind = "file" =>
            /\ ret.exit = 0
            /\ ret.stdout
                 = JoinWith(get_proof_variants(disk[argv[2]].content), Separator) \o <<LF>>

\* the tree is well-formed: its top level is a non-empty set of directories
\* named by the canonical natural numbers 0..max, every numeric directory has
\* the same set of subfolder names, every leaf subfolder the same set of file
\* names
WellFormed(root) ==
  /\ IsDir(root)
  /\ ListDir(root) # {}
  /\ \A n \in ListDir(root) : IsDir(root.entries[n]) /\ IsCanonicalNat(n)
  /\ {DecimalValue(n) : n \in ListDir(root)}
       = 0..Max({DecimalValue(n) : n \in ListDir(root)})
  /\ \A m, n \in ListDir(root) :
       SubDirNames(root.entries[m]) = SubDirNames(root.entries[n])
  /\ \A m, n \in ListDir(root) :
       \A a \in SubDirNames(root.entries[m]), b \in SubDirNames(root.entries[n]) :
         FileNames(root.entries[m].entries[a]) = FileNames(root.entries[n].entries[b])

\* C7: check_structure returns for every well-formed tree and raises
\* AssertionError for every other tree.
C7_WellFormedness ==
  pc = "check_structure" =>
    /\ WellFormed(disk) => ret = Returned
    /\ ~WellFormed(disk) => ret = AssertionError

\* the entry is the attempt file of the number n: an integer numeral of value n
\* (digits, a sign before them or none) and the extension .txt, in either case
IsAttemptFile(entry, n) ==
  \E sign \in 0..1, k \in 1..Len(entry) :
    /\ Len(entry) = sign + k + 4
    /\ sign = 1 => entry[1] \in {"+", "-"}
    /\ \A i \in 1..k : entry[sign + i] \in Digits
    /\ n = IF sign = 1 /\ entry[1] = "-"
           THEN -DecimalValue(SubSeq(entry, sign + 1, sign + k))
           ELSE DecimalValue(SubSeq(entry, sign + 1, sign + k))
    /\ entry[sign + k + 1] = "."
    /\ entry[sign + k + 2] \in {"t", "T"}
    /\ entry[sign + k + 3] \in {"x", "X"}
    /\ entry[sign + k + 4] \in {"t", "T"}

====
